---------------------------- MODULE Spec2Model ----------------------------
(***************************************************************************)
(* A model of liblite3client: the single-node HTTP client (client.cpp)     *)
(* and the topology-aware SmartClient (smart_client.cpp).                  *)
(*                                                                         *)
(* Strings are sequences of one-character strings, byte vectors are        *)
(* sequences of numbers in 0..255, a std::string_view value is a sequence  *)
(* of (signed) char codes.                                                 *)
(***************************************************************************)
EXTENDS Integers, Sequences, FiniteSets

\* ------------------------------------------------------------------------
\* Strings and conversions
\* ------------------------------------------------------------------------

Digits == <<"0", "1", "2", "3", "4", "5", "6", "7", "8", "9">>

IsDigit(c) == \E d \in 1..10 : Digits[d] = c

DigitVal(c) == (CHOOSE d \in 1..10 : Digits[d] = c) - 1

RECURSIVE NatToString(_)
NatToString(n) ==
  IF n < 10 THEN <<Digits[n + 1]>>
  ELSE NatToString(n \div 10) \o <<Digits[(n % 10) + 1]>>

\* std::to_string(int): a minus sign for negative numbers, then the digits.
ToString(n) == IF n < 0 THEN <<"-">> \o NatToString(0 - n) ELSE NatToString(n)

\* The longest run of digits of s that starts at index i, read after the
\* digits accumulated in acc.  The value is kept negated, so that the whole
\* range of an int can be told from an overflow, which yields 1.
RECURSIVE DigitRun(_, _, _)
DigitRun(s, i, acc) ==
  IF i <= Len(s) /\ IsDigit(s[i])
  THEN LET d == DigitVal(s[i]) IN
       IF acc < 0 - 214748364 \/ (acc = 0 - 214748364 /\ d > 8) THEN 1
       ELSE DigitRun(s, i + 1, acc * 10 - d)
  ELSE acc

RECURSIVE SkipSpace(_, _)
SkipSpace(s, i) ==
  IF i <= Len(s) /\ s[i] = " " THEN SkipSpace(s, i + 1) ELSE i

\* std::stoi(s): skips leading white space, takes an optional sign and then
\* the longest run of digits; what follows the digits is ignored.  It throws
\* (ok = FALSE) when there is no digit or the value does not fit an int.
Stoi(s) ==
  LET i0   == SkipSpace(s, 1)
      neg  == i0 <= Len(s) /\ s[i0] = "-"
      sgn  == i0 <= Len(s) /\ s[i0] \in {"-", "+"}
      i1   == IF sgn THEN i0 + 1 ELSE i0
      has  == i1 <= Len(s) /\ IsDigit(s[i1])
      mag  == DigitRun(s, i1, 0)
      fits == mag <= 0 /\ (neg \/ mag > 0 - 2147483647 - 1)
  IN  IF has /\ fits
      THEN [ok |-> TRUE, val |-> IF neg THEN mag ELSE 0 - mag]
      ELSE [ok |-> FALSE, val |-> 0]

\* std::find(first, last, c) on indices: the first index in from..Len(s)
\* holding c, or Len(s) + 1 (the end iterator).
RECURSIVE Find(_, _, _)
Find(s, from, c) ==
  IF from > Len(s) THEN Len(s) + 1
  ELSE IF s[from] = c THEN from
  ELSE Find(s, from + 1, c)

Sub(s, a, b) == IF a > b THEN <<>> ELSE SubSeq(s, a, b)

HttpPrefix == <<"h", "t", "t", "p", ":", "/", "/">>

StartsWith(s, p) == Len(s) >= Len(p) /\ SubSeq(s, 1, Len(p)) = p

\* std::vector<uint8_t> vec(value.begin(), value.end()): every char becomes
\* the byte with the same value modulo 256.
ToBytes(v) == [i \in 1..Len(v) |-> v[i] % 256]

\* ------------------------------------------------------------------------
\* Results
\* ------------------------------------------------------------------------

Ok(v) == [ok |-> TRUE, code |-> "Ok", msg |-> <<>>, val |-> v]

Err(c, m) == [ok |-> FALSE, code |-> c, msg |-> m, val |-> <<>>]

Unit == <<>>

NoResult == [ok |-> FALSE, code |-> "None", msg |-> <<>>, val |-> <<>>]


\* ------------------------------------------------------------------------
\* The environment: servers, keys, values, responses
\* ------------------------------------------------------------------------

\* The servers that exist.  A connect to any other (host, port) fails.
Servers == {[host |-> <<"A">>, port |-> 80], [host |-> <<"B">>, port |-> 81]}

\* The endpoint the single-node client is constructed with.
Home == [host |-> <<"A">>, port |-> 80]

NoPeer == [host |-> <<>>, port |-> 0]

EmptyKey == <<>>

Keys == {<<"a">>, <<"b">>}

\* Values as the caller passes them: chars, some of them negative.
Values == {<<>>, <<-1, 0>>}

Fields == {<<"n">>}

IntVals == {-7}

StrVals == {<<"v">>}

\* Redirect targets a server may name in a Location header.
RedirectTargets ==
  { [host |-> <<"B">>, port |-> 81, path |-> <<"/", "k", "v", "/", "a">>],
    [host |-> <<"A">>, port |-> 80, path |-> <<>>] }

\* The Location header a server writes for a redirect target.
MkLoc(t) == HttpPrefix \o t.host \o <<":">> \o ToString(t.port) \o t.path

\* Location headers that are not http://<host>:<port>[/path].
BadLocations ==
  { <<"h", "t", "t", "p", "s", ":", "/", "/", "B", ":", "8", "1", "/">>,
    <<"h", "t", "t", "p", ":", "/", "/", "B", "/", "k">>,
    <<"h", "t", "t", "p", ":", "/", "/", "B", ":", "x", "/", "k">>,
    <<"h", "t", "t", "p", ":", "/", "/", "B", ":", "/", "k">> }

Locations == {MkLoc(t) : t \in RedirectTargets} \cup BadLocations

Response(st, b, h, l) == [status |-> st, body |-> b, hasLoc |-> h, loc |-> l]

NoResponse == Response(0, <<>>, FALSE, <<>>)

\* What a server of the arbitrary world may answer.
Responses ==
  {Response(st, <<>>, FALSE, <<>>) : st \in {201, 307, 404, 500}}
    \cup {Response(200, <<7, 255>>, FALSE, <<>>)}
    \cup {Response(307, <<>>, TRUE, l) : l \in Locations}

\* Location headers whose port is not a number and that std::stoi reads
\* all the same: digits followed by something else, a sign before the digits.
LaxLocations ==
  { <<"h", "t", "t", "p", ":", "/", "/", "B", ":", "8", "1", "x",
      "/", "k", "v", "/", "a">>,
    <<"h", "t", "t", "p", ":", "/", "/", "B", ":", "+", "8", "1">> }

\* What a server of the lax world may answer.
LaxResponses ==
  {Response(200, <<7, 255>>, FALSE, <<>>)}
    \cup {Response(307, <<>>, TRUE, l) : l \in LaxLocations}

\* --- the conforming key-value server ---

Absent == [has |-> FALSE, val |-> <<>>]

Stored(b) == [has |-> TRUE, val |-> b]

KvPrefix == <<"/", "k", "v", "/">>

\* The key a conforming server reads in a request target /kv/<key>[?query].
ServerKey(target) == Sub(target, Len(KvPrefix) + 1, Find(target, 1, "?") - 1)

IsKv(target) == StartsWith(target, KvPrefix) /\ ServerKey(target) \in Keys

\* The value a conforming server holds after a patch.
PatchedVal == <<112>>

ServerReply(st, method, target, body) ==
  IF ~IsKv(target) THEN Response(404, <<>>, FALSE, <<>>)
  ELSE LET k == ServerKey(target) IN
    CASE method = "PUT" -> Response(200, <<>>, FALSE, <<>>)
      [] method = "GET" ->
           IF st[k].has THEN Response(200, st[k].val, FALSE, <<>>)
           ELSE Response(404, <<>>, FALSE, <<>>)
      [] OTHER ->
           IF st[k].has THEN Response(200, <<>>, FALSE, <<>>)
           ELSE Response(404, <<>>, FALSE, <<>>)

ServerStore(st, method, target, body) ==
  IF ~IsKv(target) THEN st
  ELSE LET k == ServerKey(target) IN
    CASE method = "PUT" -> [st EXCEPT ![k] = Stored(body)]
      [] method = "DELETE" -> [st EXCEPT ![k] = Absent]
      [] method = "POST" ->
           IF st[k].has THEN [st EXCEPT ![k] = Stored(PatchedVal)] ELSE st
      [] OTHER -> st


\* ------------------------------------------------------------------------
\* The single-node client: state
\* ------------------------------------------------------------------------

VARIABLES
  world,    \* "conforming": one key-value server that always answers;
            \* "arbitrary": any response, any I/O failure;
            \* "lax": redirects with a malformed port, no I/O failure
  store,    \* the conforming server's keys
  eng,      \* the ClientImpl objects alive: eng[1] is the client's own, the
            \* others are the temp_client objects of the redirects in progress
  frames,   \* the perform_request activations, frames[i] running on eng[i]
  cur,      \* the facade call in progress, or the last one
  result,   \* what the last facade call returned
  before,   \* eng[1] as it was when the call in cur began
  prevFailed, \* the last call that reached the engine ended in its catch block
  sent,     \* the requests written during the call in cur, in order
  rets,     \* what each activation of the call in cur read and returned,
            \* innermost first
  expect    \* per key, what the caller's successful writes since the last
            \* unfinished or failed one say the conforming server holds

svars ==
  <<world, store, eng, frames, cur, result, before, prevFailed, sent, rets,
    expect>>

\* The state of the topology-aware client and of the threads that call it.
VARIABLES
  mutex_,   \* the shared_mutex: its exclusive owner (0: none), its shared owners
  ring_,    \* the node ids on the consistent-hash ring
  clients_, \* node id -> the Client object the map holds for it
  open_,    \* per Client object: its persistent connection is open
  th,       \* per thread: where it is in its call, and what the call returned
  snap,     \* the routing state when the exclusive lock was last taken, and
            \* the peers of the document fetched since
  heap      \* the Client objects that exist (made and not yet destroyed)

smart == <<mutex_, ring_, clients_, open_, th, snap, heap>>

vars == <<svars, smart>>

MaxRedirects == 5

\* ClientImpl(host, port): the stream is constructed closed.
ClientImpl(host, port) ==
  [host_ |-> host, port_ |-> ToString(port), open |-> FALSE,
   peer |-> NoPeer, alive |-> FALSE]

\* resolver_.resolve(host_, port_): the server with that name and service.
Resolves(e) == \E sv \in Servers : sv.host = e.host_ /\ ToString(sv.port) = e.port_

Resolve(e) == CHOOSE sv \in Servers : sv.host = e.host_ /\ ToString(sv.port) = e.port_

NoParse == [ok |-> FALSE, host |-> <<>>, port |-> 0, target |-> <<>>]

parse_location(loc) ==
  LET host_start == Len(HttpPrefix) + 1
      port_sep   == Find(loc, host_start, ":")
      path_sep   == Find(loc, port_sep, "/")
      port       == Stoi(Sub(loc, port_sep + 1, path_sep - 1))
  IN  IF ~StartsWith(loc, HttpPrefix) THEN NoParse
      ELSE IF port_sep = Len(loc) + 1 THEN NoParse
      ELSE IF ~port.ok THEN NoParse
      ELSE [ok |-> TRUE, host |-> Sub(loc, host_start, port_sep - 1),
            port |-> port.val,
            target |-> IF path_sep # Len(loc) + 1
                       THEN Sub(loc, path_sep, Len(loc)) ELSE <<"/">>]

\* One activation of perform_request(method, target, body, depth).
Frame(method, target, body, depth) ==
  [method |-> method, target |-> target, body |-> body, depth |-> depth,
   pc |-> "start", res |-> NoResult, resp |-> NoResponse,
   conns |-> 0, writes |-> 0, fail |-> "none"]

Top == Len(frames)

\* A depth check that is off by one.
TooDeepLate(depth) == depth > MaxRedirects + 1

\* if (depth > 5)
TooDeep(depth) == depth > MaxRedirects

\* A classification that takes every 2xx status for a success.
ClassifyAny2xx(resp) ==
  CASE resp.status \in 200..299 -> Ok(resp.body)
    [] resp.status = 404 -> Err("NotFound", <<"Key not found">>)
    [] OTHER -> Err("ServerError", <<"Server error: ">> \o ToString(resp.status))

\* The status branches of perform_request other than the redirect.
Classify(resp) ==
  CASE resp.status = 200 -> Ok(resp.body)
    [] resp.status = 404 -> Err("NotFound", <<"Key not found">>)
    [] OTHER -> Err("ServerError", <<"Server error: ">> \o ToString(resp.status))

IsRedirect(resp) == resp.status = 307

\* res.find(http::field::location) and parse_location on its value.
RedirectOf(resp) == IF resp.hasLoc THEN parse_location(resp.loc) ELSE NoParse

\* A catch block that leaves the stream as it is.
CatchEngineKeepsOpen(e) == e

\* A catch block that shuts the socket down and does not close it, as
\* ClientImpl::close() does: is_open() stays true.
CatchEngineShutdownOnly(e) == [e EXCEPT !.alive = FALSE]

\* The catch block: shutdown, close, NetworkError with e.what().
CatchEngine(e) == [e EXCEPT !.open = FALSE, !.peer = NoPeer, !.alive = FALSE]

CatchResult(what) == Err("NetworkError", <<what>>)

Thrown(f, what) ==
  [f EXCEPT !.pc = "done", !.res = CatchResult(what), !.fail = what]

Done(f, r) == [f EXCEPT !.pc = "done", !.res = r]

\* ------------------------------------------------------------------------
\* The single-node client: perform_request, step by step
\* ------------------------------------------------------------------------

Keep == UNCHANGED <<world, cur, result, before, prevFailed, expect, smart>>

\* An entry that connects on every call, whether the stream is open or not.
PerformStartReconnects ==
  /\ Top >= 1 /\ frames[Top].pc = "start"
  /\ frames' = [frames EXCEPT ![Top] =
       IF TooDeep(@.depth)
       THEN Done(@, Err("NetworkError", <<"Too many redirects">>))
       ELSE [@ EXCEPT !.pc = "connect"]]
  /\ UNCHANGED <<eng, store, sent, rets>> /\ Keep

\* Entry: the depth check, then the is_open() test.
PerformStart ==
  /\ Top >= 1 /\ frames[Top].pc = "start"
  /\ frames' = [frames EXCEPT ![Top] =
       IF TooDeep(@.depth)
       THEN Done(@, Err("NetworkError", <<"Too many redirects">>))
       ELSE IF ~eng[Top].open THEN [@ EXCEPT !.pc = "connect"]
       ELSE [@ EXCEPT !.pc = "write"]]
  /\ UNCHANGED <<eng, store, sent, rets>> /\ Keep

\* connect(): resolve and connect succeed.
ConnectOk ==
  /\ Top >= 1 /\ frames[Top].pc = "connect"
  /\ Resolves(eng[Top])
  /\ eng' = [eng EXCEPT ![Top] =
       [@ EXCEPT !.open = TRUE, !.peer = Resolve(eng[Top]), !.alive = TRUE]]
  /\ frames' = [frames EXCEPT ![Top] =
       [@ EXCEPT !.pc = "write", !.conns = @ + 1]]
  /\ UNCHANGED <<store, sent, rets>> /\ Keep

\* connect() throws: the name does not resolve or the server refuses.
ConnectThrows ==
  /\ Top >= 1 /\ frames[Top].pc = "connect"
  /\ world = "arbitrary" \/ ~Resolves(eng[Top])
  /\ eng' = [eng EXCEPT ![Top] = CatchEngine(@)]
  /\ frames' = [frames EXCEPT ![Top] =
       Thrown([@ EXCEPT !.conns = @ + 1], "connect")]
  /\ UNCHANGED <<store, sent, rets>> /\ Keep

\* http::write succeeds: the request is on the wire.
WriteOk ==
  /\ Top >= 1 /\ frames[Top].pc = "write"
  /\ frames' = [frames EXCEPT ![Top] =
       [@ EXCEPT !.pc = "read", !.writes = @ + 1]]
  /\ sent' = Append(sent, [to |-> eng[Top].peer, depth |-> frames[Top].depth,
                           method |-> frames[Top].method,
                           target |-> frames[Top].target,
                           body |-> frames[Top].body])
  /\ UNCHANGED <<eng, store, rets>> /\ Keep

\* http::write throws.
WriteThrows ==
  /\ Top >= 1 /\ frames[Top].pc = "write"
  /\ world = "arbitrary"
  /\ eng' = [eng EXCEPT ![Top] = CatchEngine(@)]
  /\ frames' = [frames EXCEPT ![Top] =
       Thrown([@ EXCEPT !.writes = @ + 1], "write")]
  /\ UNCHANGED <<store, sent, rets>> /\ Keep

\* http::read throws: always when the server has closed the connection.
ReadThrows ==
  /\ Top >= 1 /\ frames[Top].pc = "read"
  /\ world = "arbitrary"
  /\ eng' = [eng EXCEPT ![Top] = CatchEngine(@)]
  /\ frames' = [frames EXCEPT ![Top] = Thrown(@, "read")]
  /\ UNCHANGED <<store, sent, rets>> /\ Keep

\* A redirect that closes the redirected engine's own stream first.
WithTempClientClosing(es, p) ==
  Append([es EXCEPT ![Len(es)] = CatchEngine(@)], ClientImpl(p.host, p.port))

\* ClientImpl temp_client(new_host, new_port): one more engine, the
\* engines that exist are left as they are.
WithTempClient(es, p) == Append(es, ClientImpl(p.host, p.port))

\* A redirect followed the way a 303 is: with GET and no body.
RedirectFrameAsGet(f, p) == Frame("GET", p.target, <<>>, f.depth + 1)

\* temp_client.perform_request(method, new_target, body, depth + 1)
RedirectFrame(f, p) == Frame(f.method, p.target, f.body, f.depth + 1)

\* The status handling after a response resp has been read.
Handle(resp) ==
  LET f == [frames[Top] EXCEPT !.resp = resp]
      p == RedirectOf(resp)
  IN  IF IsRedirect(resp)
      THEN IF p.ok
           THEN /\ eng' = WithTempClient(eng, p)
                /\ frames' = Append([frames EXCEPT ![Top] =
                                       [f EXCEPT !.pc = "redirected"]],
                                    RedirectFrame(f, p))
           ELSE /\ frames' = [frames EXCEPT ![Top] =
                     Done(f, Err("ServerError",
                                     <<"Invalid Redirect Location">>))]
                /\ eng' = eng
      ELSE /\ frames' = [frames EXCEPT ![Top] = Done(f, Classify(resp))]
           /\ eng' = eng

\* http::read returns the answer of the conforming server.
ReadReply ==
  /\ Top >= 1 /\ frames[Top].pc = "read"
  /\ world = "conforming"
  /\ LET f == frames[Top] IN
       /\ Handle(ServerReply(store, f.method, f.target, f.body))
       /\ store' = ServerStore(store, f.method, f.target, f.body)
  /\ UNCHANGED <<sent, rets>> /\ Keep

\* http::read returns whatever a server may answer.
ReadAny ==
  /\ Top >= 1 /\ frames[Top].pc = "read"
  /\ world = "arbitrary" /\ eng[Top].alive
  /\ \E resp \in Responses : Handle(resp)
  /\ UNCHANGED <<store, sent, rets>> /\ Keep

\* http::read returns an answer of a server of the lax world.
ReadLax ==
  /\ Top >= 1 /\ frames[Top].pc = "read"
  /\ world = "lax"
  /\ \E resp \in LaxResponses : Handle(resp)
  /\ UNCHANGED <<store, sent, rets>> /\ Keep

\* return temp_client.perform_request(...): the inner activation has
\* returned, temp_client is destroyed, its result is the caller's result.
RedirectResult(r) == r

RedirectReturn ==
  /\ Top >= 2 /\ frames[Top].pc = "done"
  /\ frames' = [SubSeq(frames, 1, Top - 1) EXCEPT ![Top - 1] =
       Done(@, RedirectResult(frames[Top].res))]
  /\ eng' = SubSeq(eng, 1, Top - 1)
  /\ rets' = Append(rets, [res |-> frames[Top].res, resp |-> frames[Top].resp])
  /\ UNCHANGED <<store, sent>> /\ Keep


\* ------------------------------------------------------------------------
\* The single-node client: the facade
\* ------------------------------------------------------------------------

\* A facade that forgets the empty-key check.
KeyEmptyUnchecked(key) == FALSE

\* key.empty()
KeyEmpty(key) == key = EmptyKey

\* std::string path = "/kv/"; path.append(key);
KvPath(key) == KvPrefix \o key

SetInt ==
  <<"?", "o", "p", "=", "s", "e", "t", "_", "i", "n", "t",
    "&", "f", "i", "e", "l", "d", "=">>

SetStr ==
  <<"?", "o", "p", "=", "s", "e", "t", "_", "s", "t", "r",
    "&", "f", "i", "e", "l", "d", "=">>

ValEq == <<"&", "v", "a", "l", "=">>

PatchIntPath(key, field, value) ==
  KvPath(key) \o SetInt \o field \o ValEq \o ToString(value)

PatchStrPath(key, field, value) ==
  KvPath(key) \o SetStr \o field \o ValEq \o value

Call(op, key, value, field) ==
  [op |-> op, key |-> key, value |-> value, field |-> field]

NoCall == Call("none", <<>>, <<>>, <<>>)

BadKey == Err("BadRequest", <<"Key cannot be empty">>)

\* The early return of every operation on an empty key.
Reject(c) ==
  /\ frames = <<>>
  /\ cur' = c /\ result' = BadKey
  /\ before' = eng[1] /\ sent' = <<>> /\ rets' = <<>>
  /\ UNCHANGED <<world, store, eng, frames, prevFailed, expect, smart>>

Writes == {"put", "put_buffer", "del", "patch_int", "patch_str"}

Unknown == [st |-> "unknown", val |-> <<>>]

\* The call of impl_->perform_request(method, target, body) at depth 0.
Begin(c, method, target, body) ==
  /\ frames = <<>>
  /\ cur' = c /\ result' = NoResult
  /\ before' = eng[1] /\ sent' = <<>> /\ rets' = <<>>
  /\ frames' = <<Frame(method, target, body, 0)>>
  /\ expect' = IF world = "conforming" /\ c.op \in Writes
                THEN [expect EXCEPT ![c.key] = Unknown] ELSE expect
  /\ UNCHANGED <<world, store, eng, prevFailed, smart>>

\* A put that reads the value as a C string: the body stops at the first NUL.
PutCString(key, value) ==
  IF KeyEmpty(key) THEN Reject(Call("put", key, value, <<>>))
  ELSE Begin(Call("put", key, value, <<>>), "PUT", KvPath(key),
             ToBytes(Sub(value, 1, Find(value, 1, 0) - 1)))

Put(key, value) ==
  IF KeyEmpty(key) THEN Reject(Call("put", key, value, <<>>))
  ELSE Begin(Call("put", key, value, <<>>), "PUT", KvPath(key), ToBytes(value))

PutBuffer(key, buf) ==
  IF KeyEmpty(key) THEN Reject(Call("put_buffer", key, buf, <<>>))
  ELSE Begin(Call("put_buffer", key, buf, <<>>), "PUT", KvPath(key), buf)

Get(key) ==
  IF KeyEmpty(key) THEN Reject(Call("get", key, <<>>, <<>>))
  ELSE Begin(Call("get", key, <<>>, <<>>), "GET", KvPath(key), <<>>)

\* contains(key) is get(key).has_value().
Contains(key) ==
  IF KeyEmpty(key) THEN Reject(Call("contains", key, <<>>, <<>>))
  ELSE Begin(Call("contains", key, <<>>, <<>>), "GET", KvPath(key), <<>>)

\* A del that issues the request with the wrong verb.
DelAsGet(key) ==
  IF KeyEmpty(key) THEN Reject(Call("del", key, <<>>, <<>>))
  ELSE Begin(Call("del", key, <<>>, <<>>), "GET", KvPath(key), <<>>)

Del(key) ==
  IF KeyEmpty(key) THEN Reject(Call("del", key, <<>>, <<>>))
  ELSE Begin(Call("del", key, <<>>, <<>>), "DELETE", KvPath(key), <<>>)

PatchInt(key, field, value) ==
  IF KeyEmpty(key) THEN Reject(Call("patch_int", key, <<value>>, field))
  ELSE Begin(Call("patch_int", key, <<value>>, field), "POST",
             PatchIntPath(key, field, value), <<>>)

PatchStr(key, field, value) ==
  IF KeyEmpty(key) THEN Reject(Call("patch_str", key, value, field))
  ELSE Begin(Call("patch_str", key, value, field), "POST",
             PatchStrPath(key, field, value), <<>>)

\* What each operation makes of perform_request's result.
UnitResult(res) == IF ~res.ok THEN res ELSE Ok(Unit)

GetResult(res) == IF ~res.ok THEN res ELSE Ok(res.val)

\* A del that passes every error on, the 404 too.
DelResultStrict(res) == IF ~res.ok THEN res ELSE Ok(Unit)

DelResult(res) ==
  IF ~res.ok
  THEN IF res.code = "NotFound" THEN Ok(Unit) ELSE res
  ELSE Ok(Unit)

Bool(b) == [ok |-> b, code |-> "Bool", msg |-> <<>>, val |-> <<>>]

ContainsResult(res) == Bool(GetResult(res).ok)

FacadeResult(op, res) ==
  CASE op = "get" -> GetResult(res)
    [] op = "contains" -> ContainsResult(res)
    [] op = "del" -> DelResult(res)
    [] OTHER -> UnitResult(res)

\* perform_request has returned to the facade operation, which returns.
FacadeReturn ==
  /\ Top = 1 /\ frames[1].pc = "done"
  /\ result' = FacadeResult(cur.op, frames[1].res)
  /\ prevFailed' = (frames[1].fail # "none")
  /\ rets' = Append(rets, [res |-> frames[1].res, resp |-> frames[1].resp])
  /\ frames' = <<>>
  /\ expect' =
       IF world = "conforming" /\ FacadeResult(cur.op, frames[1].res).ok
       THEN CASE cur.op \in {"put", "put_buffer"} ->
                   [expect EXCEPT ![cur.key] = [st |-> "put", val |-> cur.value]]
              [] cur.op = "del" ->
                   [expect EXCEPT ![cur.key] = [st |-> "deleted", val |-> <<>>]]
              [] OTHER -> expect
       ELSE expect
  /\ UNCHANGED <<world, store, eng, cur, before, sent, smart>>

\* The server closes the idle keep-alive connection; the client's socket
\* stays open on its side.
ServerCloseIdle ==
  /\ frames = <<>> /\ world = "arbitrary"
  /\ eng[1].open /\ eng[1].alive
  /\ eng' = [eng EXCEPT ![1] = [@ EXCEPT !.alive = FALSE]]
  /\ UNCHANGED <<world, store, frames, cur, result, before, prevFailed, sent,
                 rets, expect, smart>>

AllKeys == Keys \cup {EmptyKey}

Buffers == {<<7, 255>>}

\* Client db(host, port): nothing is connected, nothing has been called.
InitClient ==
  /\ store = [k \in Keys |-> Absent]
  /\ eng = <<ClientImpl(Home.host, Home.port)>>
  /\ frames = <<>>
  /\ cur = NoCall
  /\ result = NoResult
  /\ before = ClientImpl(Home.host, Home.port)
  /\ prevFailed = FALSE
  /\ sent = <<>>
  /\ rets = <<>>
  /\ expect = [k \in Keys |-> Unknown]

NextClient ==
  \/ \E k \in AllKeys, v \in Values : Put(k, v)
  \/ \E k \in AllKeys, b \in Buffers : PutBuffer(k, b)
  \/ \E k \in AllKeys : Get(k)
  \/ \E k \in AllKeys : Contains(k)
  \/ \E k \in AllKeys : Del(k)
  \/ \E k \in AllKeys, f \in Fields, n \in IntVals : PatchInt(k, f, n)
  \/ \E k \in AllKeys, f \in Fields, v \in StrVals : PatchStr(k, f, v)
  \/ PerformStart
  \/ ConnectOk
  \/ ConnectThrows
  \/ WriteOk
  \/ WriteThrows
  \/ ReadThrows
  \/ ReadReply
  \/ ReadAny
  \/ RedirectReturn
  \/ FacadeReturn
  \/ ServerCloseIdle

\* ------------------------------------------------------------------------
\* The topology-aware client (SmartClient)
\* ------------------------------------------------------------------------

NThreads == 2

Threads == 1..NThreads

\* The node ids a topology document may name; 0 is a peer to be skipped.
NodeIds == {1, 2}

\* The Client objects that can exist at once: one per node in the map and
\* one more held by each thread.
ObjIds == 1..(Cardinality(NodeIds) + NThreads)

NoClient == 0

\* --- lite3::ConsistentHash (lite3/ring.hpp), from its description ---

HashKey(key) ==
  CASE key = <<"a">> -> 1
    [] key = <<"b">> -> 4
    [] OTHER -> 7

HashId(id) == IF id = 1 THEN 2 ELSE IF id = 2 THEN 6 ELSE 0

\* get_node(key): the node at the first position >= hash(key), wrapping to
\* the first position of the ring.  On an empty ring the result is
\* undefined: any id.
get_node(ring, key) ==
  LET after == {n \in ring : HashId(n) >= HashKey(key)}
      first(S) == CHOOSE n \in S : \A m \in S : HashId(n) <= HashId(m)
  IN  IF ring = {} THEN {0} \cup NodeIds
      ELSE IF after # {} THEN {first(after)} ELSE {first(ring)}

\* --- topology documents the seed may serve ---

Peer(id, typed) == [id |-> id, typed |-> typed]

Document(valid, peers) == [valid |-> valid, peers |-> peers]

\* A text that is not JSON; a document without "peers"; documents with
\* peers, one with id 0, one whose second peer has a field of a wrong type.
Documents ==
  { Document(FALSE, <<>>),
    Document(TRUE, <<>>),
    Document(TRUE, <<Peer(1, TRUE), Peer(2, TRUE)>>),
    Document(TRUE, <<Peer(0, TRUE), Peer(2, TRUE)>>),
    Document(TRUE, <<Peer(1, TRUE), Peer(2, FALSE)>>) }

\* What seed.impl_raw_get("/cluster/map") returns when it fails.
SeedErrors ==
  { Err("NetworkError", <<"connect">>),
    Err("ServerError", <<"Server error: ", "5", "0", "0">>) }

\* What an operation of a single-node client returns for a non-empty key.
Outcomes ==
  { Ok(Unit),
    Err("NotFound", <<"Key not found">>),
    Err("NetworkError", <<"read">>),
    Err("ServerError", <<"Server error: ", "5", "0", "0">>) }

\* The routing state a connect() found when it took the lock, and the peers
\* of the document it fetched.
Snapshot(ring, clients, peers) ==
  [ring |-> ring, clients |-> clients, peers |-> peers]

\* --- threads ---

Thread(pc, key, cli, res, peers) ==
  [pc |-> pc, key |-> key, cli |-> cli, res |-> res, peers |-> peers]

\* A thread outside every call; res is what its last call returned.
Returned(res) == Thread("idle", <<>>, NoClient, res, <<>>)

Unlocked == [writer |-> 0, readers |-> {}]

\* Clients owned by the map alone, the threads holding plain pointers.
UsedByMap(o, cl, thr) == \E n \in DOMAIN cl : cl[n] = o

\* A shared_ptr<Client> to o exists: in the map or in a thread's hands.
Used(o, cl, thr) ==
  \/ \E n \in DOMAIN cl : cl[n] = o
  \/ \E t \in Threads : thr[t].cli = o

\* ~Client(): an object nobody points to any more is destroyed, which
\* closes its stream.
Sweep(op, cl, thr) == [o \in ObjIds |-> Used(o, cl, thr) /\ op[o]]

\* The Client objects of h that are left once every object without a
\* shared_ptr to it has been destroyed.
Alive(h, cl, thr) == {o \in h : Used(o, cl, thr)}

\* std::make_shared<Client>(host, port)
NewClient == CHOOSE o \in ObjIds :
  /\ ~Used(o, clients_, th)
  /\ \A q \in ObjIds : ~Used(q, clients_, th) => o <= q

\* A loop that adds the node to the ring and forgets the map.
InsertSkipped(cl, id, c) == cl

\* clients_[id] = c
Insert(cl, id, c) ==
  [n \in DOMAIN cl \cup {id} |-> IF n = id THEN c ELSE cl[n]]

\* A lookup that takes the first client of the map whatever the owner.
SelectedFirst(cl, node) ==
  IF DOMAIN cl # {}
  THEN cl[CHOOSE n \in DOMAIN cl : \A m \in DOMAIN cl : n <= m]
  ELSE NoClient

\* find, else begin(), else nullptr
Selected(cl, node) ==
  IF node \in DOMAIN cl THEN cl[node]
  ELSE IF DOMAIN cl # {}
       THEN cl[CHOOSE n \in DOMAIN cl : \A m \in DOMAIN cl : n <= m]
       ELSE NoClient

\* A null client reported with the wrong error code.
NoNodesAsServerError == Err("ServerError", <<"No nodes available">>)

\* if (!client) return Error{NetworkError, "No nodes available"}
NoNodes == Err("NetworkError", <<"No nodes available">>)

\* A routed operation enters get_client_for_key and takes the shared lock.
\* The six operations differ in the method of the single-node client they
\* call on the client they get, whose outcome is one of Outcomes for all.
Route(t, key) ==
  /\ th[t].pc = "idle"
  /\ mutex_.writer = 0
  /\ mutex_' = [mutex_ EXCEPT !.readers = @ \cup {t}]
  /\ th' = [th EXCEPT ![t] = Thread("locked", key, NoClient, NoResult, <<>>)]
  /\ UNCHANGED <<ring_, clients_, open_, snap, heap, svars>>

SmartPut(t, key) == Route(t, key)

SmartPutBuffer(t, key) == Route(t, key)

SmartGet(t, key) == Route(t, key)

SmartDel(t, key) == Route(t, key)

SmartPatchInt(t, key) == Route(t, key)

SmartPatchStr(t, key) == Route(t, key)

\* A routed operation that keeps the shared lock while it calls the client.
LookupKeepsLock(t) ==
  /\ th[t].pc = "locked"
  /\ \E node \in get_node(ring_, th[t].key) :
       LET c == Selected(clients_, node) IN
         /\ th' = [th EXCEPT ![t] =
              IF c = NoClient THEN Returned(NoNodes)
              ELSE IF KeyEmpty(@.key) THEN Returned(BadKey)
              ELSE [@ EXCEPT !.pc = "inflight", !.cli = c]]
         /\ mutex_' = IF th'[t].pc = "inflight" THEN mutex_
                      ELSE [mutex_ EXCEPT !.readers = @ \ {t}]
  /\ UNCHANGED <<ring_, clients_, open_, snap, heap, svars>>

\* get_client_for_key looks the key up, returns and releases the lock; the
\* operation returns at once on a null client, and so does the single-node
\* client on an empty key; otherwise the request is under way on the client.
Lookup(t) ==
  /\ th[t].pc = "locked"
  /\ \E node \in get_node(ring_, th[t].key) :
       LET c == Selected(clients_, node) IN
         th' = [th EXCEPT ![t] =
           IF c = NoClient THEN Returned(NoNodes)
           ELSE IF KeyEmpty(@.key) THEN Returned(BadKey)
           ELSE [@ EXCEPT !.pc = "inflight", !.cli = c]]
  /\ mutex_' = [mutex_ EXCEPT !.readers = @ \ {t}]
  /\ UNCHANGED <<ring_, clients_, open_, snap, heap, svars>>

\* The single-node client's operation returns its result to the routed
\* operation, which still holds the client.
Delegated(t) ==
  /\ th[t].pc = "inflight"
  /\ \E r \in Outcomes, o \in BOOLEAN :
       /\ r.code # "NetworkError" => o
       /\ th' = [th EXCEPT ![t] = [@ EXCEPT !.pc = "returning", !.res = r]]
       /\ open_' = Sweep([open_ EXCEPT ![th[t].cli] = o], clients_, th')
  /\ UNCHANGED <<mutex_, ring_, clients_, snap, heap, svars>>

\* A routed operation that turns the NotFound of its client into a success.
ForwardLenient(r) == IF r.code = "NotFound" THEN Ok(Unit) ELSE r

\* return client->put(key, value): the client's result as it is.
Forward(r) == r

\* A routed operation that drops the topology when its client reports a
\* network error.
SmartReturnDropping(t) ==
  /\ th[t].pc = "returning"
  /\ th' = [th EXCEPT ![t] = Returned(Forward(@.res))]
  /\ ring_' = IF th[t].res.code = "NetworkError" THEN {} ELSE ring_
  /\ clients_' = IF th[t].res.code = "NetworkError" THEN <<>> ELSE clients_
  /\ open_' = Sweep(open_, clients_', th')
  /\ heap' = Alive(heap, clients_', th')
  /\ UNCHANGED <<mutex_, snap, svars>>

\* The routed operation returns and lets go of the client.
SmartReturn(t) ==
  /\ th[t].pc = "returning"
  /\ th' = [th EXCEPT ![t] = Returned(Forward(@.res))]
  /\ open_' = Sweep(open_, clients_, th')
  /\ heap' = Alive(heap, clients_, th')
  /\ UNCHANGED <<mutex_, ring_, clients_, snap, svars>>

\* connect(): the thread asks for the exclusive lock.
SmartConnect(t) ==
  /\ th[t].pc = "idle"
  /\ th' = [th EXCEPT ![t] = Thread("connect", <<>>, NoClient, NoResult, <<>>)]
  /\ UNCHANGED <<mutex_, ring_, clients_, open_, snap, heap, svars>>

\* std::unique_lock lock(mutex_) is granted.
LockExclusive(t) ==
  /\ th[t].pc = "connect"
  /\ mutex_ = Unlocked
  /\ mutex_' = [mutex_ EXCEPT !.writer = t]
  /\ th' = [th EXCEPT ![t] = [@ EXCEPT !.pc = "fetch"]]
  /\ snap' = Snapshot(ring_, clients_, <<>>)
  /\ UNCHANGED <<ring_, clients_, open_, heap, svars>>

\* The raw GET of /cluster/map fails: its error is returned.
FetchFails(t) ==
  /\ th[t].pc = "fetch"
  /\ \E e \in SeedErrors : th' = [th EXCEPT ![t] = Returned(e)]
  /\ mutex_' = Unlocked
  /\ UNCHANGED <<ring_, clients_, open_, snap, heap, svars>>

\* The raw GET returns a body.  json::parse throws on a text that is not
\* JSON; otherwise the ring and the map are emptied.
FetchDocument(t) ==
  /\ th[t].pc = "fetch"
  /\ \E d \in Documents :
       IF ~d.valid
       THEN /\ th' = [th EXCEPT ![t] =
                 Returned(Err("NetworkError", <<"parse">>))]
            /\ mutex_' = Unlocked
            /\ UNCHANGED <<ring_, clients_, open_, snap, heap>>
       ELSE /\ th' = [th EXCEPT ![t] =
                 [@ EXCEPT !.pc = "rebuild", !.peers = d.peers]]
            /\ ring_' = {}
            /\ clients_' = <<>>
            /\ open_' = Sweep(open_, <<>>, th')
            /\ heap' = Alive(heap, <<>>, th')
            /\ snap' = [snap EXCEPT !.peers = d.peers]
            /\ UNCHANGED mutex_
  /\ UNCHANGED svars

\* A loop that adds every peer, the one with id 0 too.
UsableAny(p) == TRUE

\* if (id != 0)
Usable(p) == p.id # 0

\* One turn of the loop over the peers: a field of a wrong type throws, a
\* peer with id 0 is skipped, any other is added to the ring and the map.
AddPeer(t) ==
  /\ th[t].pc = "rebuild" /\ th[t].peers # <<>>
  /\ LET p == Head(th[t].peers) IN
       IF ~p.typed
       THEN /\ th' = [th EXCEPT ![t] =
                 Returned(Err("NetworkError", <<"type_error">>))]
            /\ mutex_' = Unlocked
            /\ UNCHANGED <<ring_, clients_, open_, heap>>
       ELSE /\ th' = [th EXCEPT ![t] = [@ EXCEPT !.peers = Tail(@)]]
            /\ IF Usable(p)
               THEN /\ ring_' = ring_ \cup {p.id}
                    /\ clients_' = Insert(clients_, p.id, NewClient)
                    /\ open_' = Sweep([open_ EXCEPT ![NewClient] = FALSE],
                                      clients_', th')
                    /\ heap' = Alive(heap \cup {NewClient}, clients_', th')
               ELSE UNCHANGED <<ring_, clients_, open_, heap>>
            /\ UNCHANGED mutex_
  /\ UNCHANGED <<snap, svars>>

\* The loop is over: connect() returns success and releases the lock.
RefreshDone(t) ==
  /\ th[t].pc = "rebuild" /\ th[t].peers = <<>>
  /\ th' = [th EXCEPT ![t] = Returned(Ok(Unit))]
  /\ mutex_' = Unlocked
  /\ UNCHANGED <<ring_, clients_, open_, snap, heap, svars>>

\* SmartClient(seed_host, seed_port): an empty ring, an empty map.
InitSmart ==
  /\ mutex_ = Unlocked
  /\ snap = Snapshot({}, <<>>, <<>>)
  /\ heap = {}
  /\ ring_ = {}
  /\ clients_ = <<>>
  /\ open_ = [o \in ObjIds |-> FALSE]
  /\ th = [t \in Threads |-> Returned(NoResult)]

NextSmart ==
  \/ \E t \in Threads, k \in AllKeys : SmartPut(t, k)
  \/ \E t \in Threads, k \in AllKeys : SmartPutBuffer(t, k)
  \/ \E t \in Threads, k \in AllKeys : SmartGet(t, k)
  \/ \E t \in Threads, k \in AllKeys : SmartDel(t, k)
  \/ \E t \in Threads, k \in AllKeys : SmartPatchInt(t, k)
  \/ \E t \in Threads, k \in AllKeys : SmartPatchStr(t, k)
  \/ \E t \in Threads : Lookup(t)
  \/ \E t \in Threads : Delegated(t)
  \/ \E t \in Threads : SmartReturn(t)
  \/ \E t \in Threads : SmartConnect(t)
  \/ \E t \in Threads : LockExclusive(t)
  \/ \E t \in Threads : FetchFails(t)
  \/ \E t \in Threads : FetchDocument(t)
  \/ \E t \in Threads : AddPeer(t)
  \/ \E t \in Threads : RefreshDone(t)

\* ------------------------------------------------------------------------
\* Specifications
\* ------------------------------------------------------------------------

\* A single-node client used by one caller, in either world.
Init == world \in {"conforming", "arbitrary"} /\ InitClient /\ InitSmart

Next == NextClient

Spec == Init /\ [][Next]_vars

\* The same client, also in a world whose server redirects with Location
\* headers that have a malformed port.
InitLax ==
  world \in {"conforming", "arbitrary", "lax"} /\ InitClient /\ InitSmart

NextLax == Next \/ ReadLax

SpecLax == InitLax /\ [][NextLax]_vars

\* A topology-aware client used by NThreads threads.
InitThreads == world = "arbitrary" /\ InitClient /\ InitSmart

SpecSmart == InitThreads /\ [][NextSmart]_vars

\* The threads run: a lookup that holds the shared lock ends, and so does a
\* refresh that holds the exclusive lock (the seed answers or fails); a
\* thread blocked in unique_lock gets the mutex if it stays free.  The
\* mutex promises no more: lookups or refreshes that keep coming may starve
\* a waiting thread.  Nothing makes a request to a node end: it may hang
\* for ever.
Fairness ==
  \A t \in Threads :
    /\ WF_vars(Lookup(t))
    /\ WF_vars(LockExclusive(t))
    /\ WF_vars(FetchFails(t) \/ FetchDocument(t))
    /\ WF_vars(AddPeer(t))
    /\ WF_vars(RefreshDone(t))

SpecLive == InitThreads /\ [][NextSmart]_vars /\ Fairness

\* ------------------------------------------------------------------------
\* Properties of the single-node client
\* ------------------------------------------------------------------------

Idle == frames = <<>>

\* The call in cur has gone through perform_request and has returned.
Completed == Idle /\ cur.op # "none" /\ cur.key # EmptyKey

\* The bytes of a value, as an unsigned-byte sequence.
BytesOf(v) == [i \in 1..Len(v) |-> (v[i] + 256) % 256]

\* C1: put, get, del, patch_int and patch_str (and contains) called with an
\* empty key return Err(BadRequest, "Key cannot be empty"); no activation of
\* perform_request exists, nothing was connected or written, and the
\* connection is as it was before the call, open or closed.
EmptyKeyRejected ==
  (cur.op # "none" /\ cur.key = EmptyKey) =>
    /\ result = [ok |-> FALSE, code |-> "BadRequest",
                 msg |-> <<"Key cannot be empty">>, val |-> <<>>]
    /\ frames = <<>> /\ sent = <<>> /\ rets = <<>>
    /\ Len(eng) = 1
    /\ eng[1].open = before.open /\ eng[1].peer = before.peer
    /\ eng[1].host_ = before.host_ /\ eng[1].port_ = before.port_

\* An empty-key patch_str was rejected while the connection was open.
EmptyKeyWitness ==
  /\ cur.op = "patch_str" /\ cur.key = EmptyKey
  /\ before.open /\ eng[1].open
  /\ result.code = "BadRequest"

\* C2: against the conforming server, when put(k, v) succeeded and no other
\* write to k was begun since, a get(k) returns Ok with the bytes of v.
PutGetRoundTrip ==
  (world = "conforming" /\ Completed /\ cur.op = "get"
     /\ expect[cur.key].st = "put") =>
    result = [ok |-> TRUE, code |-> "Ok", msg |-> <<>>,
              val |-> BytesOf(expect[cur.key].val)]

\* A get returned the two bytes 255, 0 that a put had written as chars -1, 0.
PutGetWitness ==
  /\ world = "conforming" /\ Completed /\ cur.op = "get"
  /\ expect[cur.key] = [st |-> "put", val |-> <<-1, 0>>]
  /\ result.ok /\ result.val = <<255, 0>>

\* C3: against the conforming server, after del(k) succeeded (k put before
\* or not) and no write to k was begun since, get(k) returns Err(NotFound)
\* and contains(k) is false.
DelThenGetNotFound ==
  (world = "conforming" /\ Completed /\ expect[cur.key].st = "deleted") =>
    /\ cur.op = "get" =>
         result = [ok |-> FALSE, code |-> "NotFound",
                   msg |-> <<"Key not found">>, val |-> <<>>]
    /\ cur.op = "contains" => result.ok = FALSE

\* A contains(k) answered false after a del(k) that removed a stored key.
DelThenGetWitness ==
  /\ world = "conforming" /\ Completed /\ cur.op = "contains"
  /\ expect[cur.key].st = "deleted" /\ ~result.ok
  /\ rets[Len(rets)].resp.status = 404

\* C4: del returns success when perform_request returned Ok or NotFound, so
\* that against the conforming server every del(k) succeeds, and it returns
\* every other error of perform_request unchanged.
DelIdempotent ==
  (Completed /\ cur.op = "del") =>
    LET r == rets[Len(rets)].res IN
      /\ (r.ok \/ r.code = "NotFound") =>
           result = [ok |-> TRUE, code |-> "Ok", msg |-> <<>>, val |-> <<>>]
      /\ (~r.ok /\ r.code # "NotFound") => result = r
      /\ world = "conforming" => result.ok

\* A del(k) succeeded on a 404, the key having been deleted just before.
DelIdempotentWitness ==
  /\ world = "conforming" /\ Completed /\ cur.op = "del"
  /\ rets[Len(rets)].res.code = "NotFound" /\ result.ok
  /\ expect[cur.key].st = "deleted"


\* ------------------------------------------------------------------------
\* Properties of perform_request
\* ------------------------------------------------------------------------

TooMany ==
  [ok |-> FALSE, code |-> "NetworkError", msg |-> <<"Too many redirects">>,
   val |-> <<>>]

BadRedirect ==
  [ok |-> FALSE, code |-> "ServerError",
   msg |-> <<"Invalid Redirect Location">>, val |-> <<>>]

\* The decimal text of the status codes the servers of the model send.
StatusText(c) ==
  CASE c = 201 -> <<"2", "0", "1">>
    [] c = 500 -> <<"5", "0", "0">>
    [] OTHER -> <<"?">>

\* The outcome the status table gives for a response that is no redirect.
Outcome(resp) ==
  CASE resp.status = 200 ->
         [ok |-> TRUE, code |-> "Ok", msg |-> <<>>, val |-> resp.body]
    [] resp.status = 404 ->
         [ok |-> FALSE, code |-> "NotFound", msg |-> <<"Key not found">>,
          val |-> <<>>]
    [] OTHER ->
         [ok |-> FALSE, code |-> "ServerError",
          msg |-> <<"Server error: ">> \o StatusText(resp.status),
          val |-> <<>>]

\* C5: an activation that has read a response returns by its status alone:
\* 200 gives Ok(body), 404 gives Err(NotFound, "Key not found"), 307 goes to
\* the redirect handling (the activation waits for the redirected request or
\* returns its result or "Invalid Redirect Location"), every other status c
\* gives Err(ServerError, "Server error: <c>"); an activation that read no
\* response never returns Ok.
StatusDecides ==
  /\ \A i \in 1..Len(frames) :
       LET f == frames[i] IN
         /\ f.resp.status = 0 => ~f.res.ok
         /\ f.resp.status = 307 =>
              \/ f.pc = "redirected" /\ i < Len(frames)
              \/ f.pc = "done" /\ f.res = BadRedirect
              \/ f.pc = "done" /\ i = Len(frames) /\ rets # <<>>
                   /\ f.res = rets[Len(rets)].res
         /\ f.resp.status \notin {0, 307} =>
              f.pc = "done" /\ f.res = Outcome(f.resp)
  /\ \A j \in 1..Len(rets) :
       /\ rets[j].resp.status = 0 => ~rets[j].res.ok
       /\ rets[j].resp.status = 307 =>
            \/ rets[j].res = BadRedirect
            \/ j > 1 /\ rets[j].res = rets[j - 1].res
       /\ rets[j].resp.status \notin {0, 307} =>
            rets[j].res = Outcome(rets[j].resp)

\* An activation at depth 1 has returned the ServerError of a 201 response.
StatusDecidesWitness ==
  /\ Len(frames) = 2 /\ frames[2].pc = "done"
  /\ frames[2].resp.status = 201
  /\ frames[2].res.msg = <<"Server error: ", "2", "0", "1">>

\* C6: one call writes at most six requests, one per depth 0..5, so it
\* follows at most five redirects; the activation at depth 6 connects and
\* writes nothing and returns Err(NetworkError, "Too many redirects"), which
\* is the call's result after six followed 307 responses; a call whose
\* innermost activation read a response that is no 307 returns the outcome
\* of that response.
RedirectCap ==
  /\ Len(sent) <= 6 /\ Len(frames) <= 7 /\ Len(rets) <= 7
  /\ \A j \in 1..Len(sent) : sent[j].depth = j - 1
  /\ \A i \in 1..Len(frames) :
       /\ frames[i].depth = i - 1
       /\ i = 7 =>
            /\ frames[i].conns = 0 /\ frames[i].writes = 0 /\ ~eng[i].open
            /\ frames[i].pc \in {"start", "done"}
            /\ frames[i].pc = "done" => frames[i].res = TooMany
  /\ (Idle /\ Len(rets) = 7) =>
       /\ \A j \in 2..7 : rets[j].resp.status = 307
       /\ rets[7].res = TooMany
       /\ cur.op # "contains" => result = TooMany
  /\ (Idle /\ rets # <<>> /\ rets[1].resp.status \notin {0, 307}) =>
       rets[Len(rets)].res = Outcome(rets[1].resp)

\* A call has returned "Too many redirects" after writing six requests.
RedirectCapWitness ==
  Idle /\ Len(rets) = 7 /\ Len(sent) = 6 /\ result = TooMany

\* The method and the body perform_request is called with by the facade.
CallMethod(c) ==
  CASE c.op \in {"put", "put_buffer"} -> "PUT"
    [] c.op \in {"get", "contains"} -> "GET"
    [] c.op = "del" -> "DELETE"
    [] OTHER -> "POST"

CallBody(c) ==
  CASE c.op = "put" -> BytesOf(c.value)
    [] c.op = "put_buffer" -> c.value
    [] OTHER -> <<>>

\* C7: an activation redirected to http://<host>:<port><path> waits for an
\* activation one level deeper that runs on an engine for (<host>, <port>)
\* with target <path> ("/" when the path is empty) and the same method and
\* body; every request written during a call has the method and body of the
\* call; the result of the redirected request is returned as it is.
RedirectPreserves ==
  /\ \A i \in 1..(Len(frames) - 1) :
       LET f == frames[i]
           g == frames[i + 1]
       IN  \A t \in RedirectTargets :
             f.resp.loc = MkLoc(t) =>
               /\ eng[i + 1].host_ = t.host
               /\ eng[i + 1].open =>
                    eng[i + 1].peer = [host |-> t.host, port |-> t.port]
               /\ g.target = IF t.path = <<>> THEN <<"/">> ELSE t.path
               /\ g.method = f.method /\ g.body = f.body
               /\ g.depth = f.depth + 1
  /\ \A j \in 1..Len(sent) :
       sent[j].method = CallMethod(cur) /\ sent[j].body = CallBody(cur)
  /\ \A j \in 2..Len(rets) : rets[j].res = rets[j - 1].res

\* A put redirected twice has written its body at depth 2 to server B.
RedirectPreservesWitness ==
  /\ Len(frames) = 3 /\ frames[3].pc = "read"
  /\ cur.op = "put" /\ Len(sent) = 3
  /\ sent[3].method = "PUT" /\ sent[3].body = <<255, 0>>
  /\ sent[3].to = [host |-> <<"B">>, port |-> 81]

\* C8: the client's own engine keeps its host and port; once it has read a
\* 307 its connection to the original endpoint stays open during the
\* redirected request and after the call, whatever the call returns; the
\* first request of every call goes to the original endpoint.
PersistentKept ==
  /\ eng[1].host_ = <<"A">> /\ eng[1].port_ = <<"8", "0">>
  /\ sent # <<>> =>
       sent[1].to = [host |-> <<"A">>, port |-> 80] /\ sent[1].depth = 0
  /\ (frames # <<>> /\ frames[1].resp.status = 307) =>
       eng[1].open /\ eng[1].peer = [host |-> <<"A">>, port |-> 80]
  /\ (Completed /\ rets[Len(rets)].resp.status = 307) =>
       eng[1].open /\ eng[1].peer = [host |-> <<"A">>, port |-> 80]

\* A call redirected to B has failed there and the connection to A is open.
PersistentKeptWitness ==
  /\ Completed /\ Len(rets) = 2 /\ rets[2].resp.status = 307
  /\ sent[Len(sent)].to = [host |-> <<"B">>, port |-> 81]
  /\ result.code = "NetworkError" /\ eng[1].open

\* C9: an engine connects at most once and writes at most once per
\* activation; an activation whose connect, write or read failed returns
\* Err(NetworkError) with its stream closed, and so does the call when it
\* is the client's own engine that failed (no request but that one written).
\* The call after a failed one begins with the connection closed and makes
\* exactly one connect before it writes; a call that begins with the
\* connection open never connects; a call that begins on a connection the
\* server has closed fails.
NoRetry ==
  /\ \A i \in 1..Len(frames) :
       LET f == frames[i] IN
         /\ f.conns <= 1 /\ f.writes <= 1
         /\ f.fail # "none" =>
              /\ f.pc = "done" /\ ~f.res.ok /\ f.res.code = "NetworkError"
              /\ ~eng[i].open
  /\ (frames # <<>> /\ prevFailed) => ~before.open
  /\ (frames # <<>> /\ ~before.open /\ frames[1].writes > 0) =>
       frames[1].conns = 1
  /\ (frames # <<>> /\ before.open) => frames[1].conns = 0
  /\ (frames # <<>> /\ before.open /\ ~before.alive) =>
       /\ frames[1].pc # "redirected"
       /\ frames[1].pc = "done" => frames[1].fail \in {"write", "read"}
  /\ (Completed /\ prevFailed) =>
       /\ ~eng[1].open /\ Len(sent) <= 1 /\ Len(rets) = 1
       /\ cur.op # "contains" => ~result.ok /\ result.code = "NetworkError"

\* The call after a failed call has connected once and written its request.
NoRetryWitness ==
  /\ frames # <<>> /\ prevFailed /\ ~before.open
  /\ frames[1].pc = "read" /\ frames[1].conns = 1 /\ eng[1].open


\* C16 as stated: whenever a call returns Err(NetworkError), whatever the
\* cause, the client's persistent connection is closed.
NetworkErrorAlwaysCloses ==
  (Completed /\ rets[Len(rets)].res.code = "NetworkError") =>
    ~eng[1].open

\* C16, amended: when a call returns Err(NetworkError) because the connect,
\* write or read on the client's own connection failed, that connection is
\* closed when the call returns; when the error comes from a redirected
\* request or from "Too many redirects", the call has read a 307 on the
\* persistent connection, which is left open.
NetworkErrorCloses ==
  (Completed /\ rets[Len(rets)].res.code = "NetworkError") =>
    /\ prevFailed =>
         Len(rets) = 1 /\ rets[1].resp.status = 0 /\ ~eng[1].open
    /\ ~prevFailed =>
         /\ Len(rets) >= 2 /\ rets[Len(rets)].resp.status = 307
         /\ eng[1].open /\ eng[1].peer = [host |-> <<"A">>, port |-> 80]

\* A call that began on an open connection has failed on it and returned
\* NetworkError with the connection closed.
NetworkErrorClosesWitness ==
  /\ Completed /\ rets[Len(rets)].res.code = "NetworkError"
  /\ prevFailed /\ before.open /\ ~eng[1].open


\* The Location values of the model that are http://<host>:<port>[/path].
WellFormed == {MkLoc(t) : t \in RedirectTargets}

\* The response is a 307 without a Location, or with one that is not
\* http://<host>:<port>[/path].
BadlyRedirected(resp) ==
  resp.status = 307 /\ (~resp.hasLoc \/ resp.loc \notin WellFormed)

\* C20: an activation that has read a 307 whose Location is missing or is
\* not http://<host>:<port>[/path] returns Err(ServerError, "Invalid
\* Redirect Location"): no activation follows it, no request is written
\* after the one it answered, and the persistent connection stays open.
InvalidLocationRejected ==
  /\ \A i \in 1..Len(frames) :
       BadlyRedirected(frames[i].resp) =>
         /\ i = Len(frames) /\ Len(sent) = i
         /\ frames[i].pc = "done" /\ frames[i].res = BadRedirect
         /\ eng[1].open
  /\ \A j \in 1..Len(rets) :
       BadlyRedirected(rets[j].resp) =>
         /\ j = 1 /\ rets[j].res = BadRedirect
         /\ eng[1].open

\* The connection of the client's own engine as a call finds and leaves it.
LazyConnectState ==
  /\ cur = NoCall => ~eng[1].open /\ sent = <<>>
  /\ frames # <<>> =>
       LET f == frames[1] IN
         /\ f.pc = "connect" => ~eng[1].open
         /\ f.pc \in {"start", "connect"} =>
              f.conns = 0 /\ eng[1].open = before.open
         /\ f.pc \notin {"start", "connect"} =>
              f.conns = (IF before.open THEN 0 ELSE 1)
         /\ (before.open /\ sent # <<>>) => sent[1].to = before.peer
         /\ f.resp # NoResponse => eng[1].open /\ eng[1].peer = Home
  /\ (Completed /\ rets[Len(rets)].resp # NoResponse) =>
       eng[1].open /\ eng[1].peer = Home

\* The steps that change the connection of the client's own engine.
LazyConnectStep ==
  /\ (~eng[1].open /\ eng'[1].open) =>
       Len(frames) = 1 /\ frames[1].pc = "connect" /\ ~before.open
  /\ (eng[1].open /\ ~eng'[1].open) =>
       Len(frames) = 1 /\ frames'[1].fail \in {"write", "read"}
  /\ (frames = <<>> /\ frames' # <<>>) => before' = eng[1] /\ eng' = eng

\* C21: construction opens no connection; a call that reaches
\* perform_request connects if and only if the connection is closed when
\* the call starts; once an exchange on the persistent connection has
\* completed, with any status, the connection is open for the rest of the
\* call and when the call has returned, and the next call finds it as the
\* call left it and writes on it without connecting; the connection is
\* opened only when it is closed, by the connect of a call, and closed only
\* by a failed write or read.
LazyConnect == []LazyConnectState /\ [][LazyConnectStep]_vars

\* The second call on an open connection has been answered 404 without a
\* connect.
LazyConnectWitness ==
  /\ frames # <<>> /\ before.open /\ frames[1].pc = "done"
  /\ frames[1].conns = 0 /\ frames[1].resp.status = 404
  /\ Len(sent) = 1 /\ sent[1].to = Home /\ eng[1].open


\* The temp_client objects whose connection is open.
Ephemeral == {i \in 2..Len(eng) : eng[i].open}

\* C23: every activation of a redirect chain runs on an engine of its own,
\* the activation at depth d on the (d+1)-th; while an activation waits for
\* the redirected request its own connection stays open, so the open
\* connections are nested, one per hop, at most MaxRedirects of them on
\* temp_client objects besides the persistent one; each temp_client is
\* destroyed when its activation returns, and when the call has returned,
\* whatever the outcome, only the client's own engine is left.
EphemeralNested ==
  /\ Len(eng) = (IF frames = <<>> THEN 1 ELSE Len(frames))
  /\ \A i \in 1..Len(frames) : frames[i].depth = i - 1
  /\ \A i \in 1..(Len(frames) - 1) :
       frames[i].pc = "redirected" /\ eng[i].open
  /\ Cardinality(Ephemeral) <= MaxRedirects
  /\ Idle => Ephemeral = {}

\* A chain of redirects has MaxRedirects one-shot connections open besides
\* the persistent one.
EphemeralNestedWitness ==
  /\ Cardinality(Ephemeral) = MaxRedirects /\ eng[1].open
  /\ frames[Len(frames)].depth = MaxRedirects


\* ------------------------------------------------------------------------
\* Properties of the topology-aware client
\* ------------------------------------------------------------------------

\* C10: whatever the interleaving of the threads' put, get, del and patch
\* calls, no two threads have an operation in flight on the same Client
\* object (the same connection) at the same time.
OneOperationPerClient ==
  \A t \in Threads, u \in Threads :
    (t # u /\ th[t].pc = "inflight" /\ th[u].pc = "inflight") =>
      th[t].cli # th[u].cli

\* C11: whenever the exclusive lock is not held, so that a lookup can read
\* the routing state, the node ids on the ring are the keys of the client
\* map, and with a non-empty map the node get_node gives for any key has an
\* entry in the map.
RingMatchesMap ==
  mutex_.writer = 0 =>
    /\ ring_ = DOMAIN clients_
    /\ DOMAIN clients_ # {} =>
         \A k \in AllKeys : get_node(ring_, k) \subseteq DOMAIN clients_

\* A lookup holds the shared lock on the one-node topology that a refresh
\* stopped by a type error has left behind.
RingMatchesWitness ==
  /\ mutex_.writer = 0 /\ ring_ = {1} /\ DOMAIN clients_ = {1}
  /\ \E t \in Threads, u \in Threads :
       th[t].pc = "locked" /\ th[u].res.msg = <<"type_error">>

\* C12: a connect() that fails, for whatever reason, returns
\* Err(NetworkError) and leaves the ring and the client map exactly as they
\* were when it began.
ConnectFailureKeeps ==
  [][\A t \in Threads :
       (th[t].pc \in {"fetch", "rebuild"} /\ th'[t].pc = "idle"
          /\ ~th'[t].res.ok) =>
         /\ th'[t].res.code = "NetworkError"
         /\ ring_' = snap.ring /\ clients_' = snap.clients]_vars

\* The client the routing rule gives for an owner: the owner's, or that of
\* the lowest id in the map when the owner has none.
ClientOf(owner) ==
  IF owner \in DOMAIN clients_ THEN clients_[owner]
  ELSE clients_[CHOOSE n \in DOMAIN clients_ : \A m \in DOMAIN clients_ : n <= m]

\* C13: with a non-empty map, a routed operation for key k goes in flight on
\* the client of get_node(k) (or has an empty key, which that client rejects
\* with BadRequest); it stays on that one client until the client returns,
\* and it returns the client's result unchanged.
RoutedToOwner ==
  [][\A t \in Threads :
       /\ (th[t].pc = "locked" /\ th'[t].pc # "locked"
             /\ DOMAIN clients_ # {}) =>
            IF th[t].key = EmptyKey
            THEN th'[t].pc = "idle"
                 /\ th'[t].res = [ok |-> FALSE, code |-> "BadRequest",
                                  msg |-> <<"Key cannot be empty">>,
                                  val |-> <<>>]
            ELSE th'[t].pc = "inflight" /\ th'[t].key = th[t].key
                 /\ \E owner \in get_node(ring_, th[t].key) :
                      th'[t].cli = ClientOf(owner)
                 /\ Cardinality(get_node(ring_, th[t].key)) = 1
       /\ (th[t].pc = "inflight" /\ th'[t].pc # "inflight") =>
            th'[t].pc = "returning" /\ th'[t].cli = th[t].cli
       /\ (th[t].pc = "returning" /\ th'[t].pc # "returning") =>
            th'[t].pc = "idle" /\ th'[t].res = th[t].res]_vars

\* With nodes 1 and 2 in the map, an operation for key "b" is in flight on
\* the client of node 2 while another has got NotFound from its client.
RoutedToOwnerWitness ==
  /\ DOMAIN clients_ = {1, 2}
  /\ \E t \in Threads, u \in Threads :
       /\ th[t].pc = "inflight" /\ th[t].key = <<"b">>
       /\ th[t].cli = clients_[2] /\ th[t].cli # clients_[1]
       /\ th[u].pc = "returning" /\ th[u].res.code = "NotFound"

\* C14: a routed operation whose lookup finds the client map empty returns
\* Err(NetworkError, "No nodes available") at once: it holds no client and
\* is never in flight, so it sends no request.
EmptyMapNoNodes ==
  [][\A t \in Threads :
       (th[t].pc = "locked" /\ th'[t].pc # "locked"
          /\ DOMAIN clients_ = {}) =>
         /\ th'[t].pc = "idle" /\ th'[t].cli = 0
         /\ th'[t].res = [ok |-> FALSE, code |-> "NetworkError",
                          msg |-> <<"No nodes available">>, val |-> <<>>]]_vars

\* An operation has returned "No nodes available" after a refresh that
\* emptied a map of two nodes.
EmptyMapNoNodesWitness ==
  /\ DOMAIN clients_ = {} /\ DOMAIN snap.clients = {1, 2}
  /\ mutex_.writer = 0
  /\ \E t \in Threads :
       th[t].pc = "idle" /\ th[t].res.msg = <<"No nodes available">>

\* C15: the client an operation holds, in flight or returning, exists even
\* when a refresh has dropped it from the map;
\* a client exists only as long as the map or an operation refers to it,
\* and the connection of a destroyed client is closed.
ClientsOutlive ==
  /\ \A t \in Threads :
       th[t].pc \in {"inflight", "returning"} =>
         th[t].cli # 0 /\ th[t].cli \in heap
  /\ \A o \in heap :
       \/ \E n \in DOMAIN clients_ : clients_[n] = o
       \/ \E t \in Threads :
            th[t].pc \in {"inflight", "returning"} /\ th[t].cli = o
  /\ \A o \in ObjIds \ heap : ~open_[o]

\* After a refresh that built a new map, an operation is in flight on a
\* client that is no longer in the map, with its connection open.
ClientsOutliveWitness ==
  /\ mutex_.writer = 0 /\ DOMAIN clients_ # {}
  /\ \E t \in Threads :
       /\ th[t].pc = "inflight" /\ th[t].cli \in heap /\ open_[th[t].cli]
       /\ \A n \in DOMAIN clients_ : clients_[n] # th[t].cli

\* The node ids a document asks for: those of its peers that are not 0.
PeerIds(peers) == {peers[i].id : i \in 1..Len(peers)} \ {0}

\* C17: when a connect() returns success, the ids on the ring and the keys
\* of the client map are the ids other than 0 of the peers of the document
\* it fetched (none for a document without peers), and every client in the
\* map is a new one: unconnected and held by no operation.
RefreshBuildsDocument ==
  [][\A t \in Threads :
       (th[t].pc \in {"fetch", "rebuild"} /\ th'[t].pc = "idle"
          /\ th'[t].res.ok) =>
         /\ ring_' = PeerIds(snap.peers)
         /\ DOMAIN clients_' = PeerIds(snap.peers)
         /\ \A n \in DOMAIN clients_' :
              /\ ~open_'[clients_'[n]]
              /\ \A u \in Threads : th'[u].cli # clients_'[n]]_vars

\* A refresh of a two-node topology with a document naming peers 0 and 2
\* has completed: node 2 alone is left.
RefreshBuildsDocumentWitness ==
  /\ mutex_.writer = 0
  /\ DOMAIN snap.clients = {1, 2}
  /\ Len(snap.peers) = 2 /\ snap.peers[1].id = 0 /\ snap.peers[2].id = 2
  /\ ring_ = {2} /\ DOMAIN clients_ = {2}

\* C18: a step of a routed operation (entering the lookup, the lookup, the
\* client's return, the operation's return) leaves the ring and the client
\* map as they are, whatever the outcome; the ring or the map change only
\* in a step of the thread that is inside connect() with the exclusive lock.
OnlyConnectChangesRouting ==
  [][/\ \A t \in Threads :
          (th'[t] # th[t]
             /\ (th[t].pc \in {"locked", "inflight", "returning"}
                   \/ th'[t].pc = "locked")) =>
            (ring_' = ring_ /\ clients_' = clients_)
     /\ (ring_' # ring_ \/ clients_' # clients_) =>
          /\ mutex_.writer # 0
          /\ th[mutex_.writer].pc \in {"fetch", "rebuild"}
          /\ \A t \in Threads \ {mutex_.writer} : th'[t] = th[t]]_vars

\* With nodes 1 and 2 in the map, one operation has returned a network
\* error and another is returning the NotFound of its client.
OnlyConnectChangesRoutingWitness ==
  /\ ring_ = {1, 2} /\ DOMAIN clients_ = {1, 2}
  /\ \E t \in Threads, u \in Threads :
       /\ th[t].pc = "idle" /\ th[t].res.code = "NetworkError"
       /\ th[t].res.msg = <<"read">>
       /\ th[u].pc = "returning" /\ th[u].res.code = "NotFound"

\* A thread holds the shared lock only in its lookup and the exclusive lock
\* only inside connect(); with an operation in flight or returning it holds
\* neither, so that a connect() waiting while no lookup and no refresh runs
\* finds the mutex free, whatever is in flight.
LockOnlyInLookup ==
  /\ \A t \in Threads :
       /\ t \in mutex_.readers <=> th[t].pc = "locked"
       /\ mutex_.writer = t <=> th[t].pc \in {"fetch", "rebuild"}
       /\ th[t].pc \in {"inflight", "returning"} =>
            t \notin mutex_.readers /\ mutex_.writer # t
  /\ (\A u \in Threads : th[u].pc \notin {"locked", "fetch", "rebuild"}) =>
       mutex_ = [writer |-> 0, readers |-> {}]

\* No thread but t is in a lookup or in a refresh.
OthersOutside(t) ==
  \A u \in Threads \ {t} : th[u].pc \notin {"locked", "fetch", "rebuild"}

\* C19: no thread holds the routing lock while its operation is in flight,
\* and once the lookups and refreshes of the other threads are over, a
\* connect() that waits for the exclusive lock gets it, even if the
\* operations in flight never return.
LockFreeInFlight ==
  /\ []LockOnlyInLookup
  /\ \A t \in Threads :
       <>[]OthersOutside(t) => ((th[t].pc = "connect") ~> (th[t].pc = "fetch"))

\* A connect() has taken the exclusive lock while an operation is in flight.
LockFreeInFlightWitness ==
  \E t \in Threads, u \in Threads :
    /\ th[t].pc = "fetch" /\ mutex_.writer = t
    /\ th[u].pc = "inflight" /\ th[u].cli # 0


\* C22: a routed operation called with an empty key returns
\* Err(BadRequest, "Key cannot be empty") and puts no request under way on
\* any client, whatever the ring and the client map hold when it looks the
\* key up, an empty map included.
SmartEmptyKeyRejected ==
  [][\A t \in Threads :
       (th[t].pc = "locked" /\ th[t].key = EmptyKey /\ th'[t] # th[t]) =>
         th'[t] = Returned(BadKey)]_vars
============================================================================
